---- MODULE Spec2Model ----
(***************************************************************************)
(* A model of envoy.core (src/envoy/core.py): the supervised execution of  *)
(* one child process by Command.run (a worker thread that spawns the child *)
(* and communicates with it, raced by the calling thread against a soft    *)
(* timeout and a kill timeout), the pipeline loop of run(), and connect()  *)
(* with the ConnectedCommand it returns.                                   *)
(*                                                                         *)
(* The calling thread, the worker thread and the child process are three   *)
(* interleaved processes.  One action is one step of one of them between   *)
(* two points where another may run.                                       *)
(***************************************************************************)
EXTENDS Integers, Sequences, FiniteSets

(***************************************************************************)
(* Bounds of the model.                                                    *)
(***************************************************************************)
MaxStages == 2

(***************************************************************************)
(* Python values.  None, integers and strings are tagged records, so that  *)
(* a field that holds "None or a value" can be compared with either.       *)
(*                                                                         *)
(* A string is a window into the endless repetition of a pattern: its      *)
(* character at position k (from 0) is pat[((off + k) % Len(pat)) + 1].    *)
(* The representation is closed under slicing and lets a string be longer  *)
(* than the 10 KiB hand-off cap without enumerating its characters.        *)
(***************************************************************************)
None == [kind |-> "None"]
IntV(n) == [kind |-> "int", val |-> n]
Pat == <<"a", "b", "c">>
MkStr(o, n) == [kind |-> "str", off |-> o, len |-> n, pat |-> Pat]
EmptyStr == MkStr(0, 0)

Min(a, b) == IF a <= b THEN a ELSE b
Max(a, b) == IF a >= b THEN a ELSE b

CharAt(s, k) == s.pat[((s.off + k) % Len(s.pat)) + 1]

\* Two periodic strings that agree on Len(s.pat) + Len(t.pat) positions agree
\* everywhere (Fine and Wilf), so only that many positions are compared.
SameChars(s, t, n) ==
    \A k \in 0 .. (Min(n, Len(s.pat) + Len(t.pat)) - 1) : CharAt(s, k) = CharAt(t, k)
StrEq(s, t) == s.len = t.len /\ SameChars(s, t, s.len)
IsPrefix(s, t) == s.len <= t.len /\ SameChars(s, t, s.len)

\* Python's s[lo:hi] for 0 <= lo, 0 <= hi.
Slice(s, lo, hi) ==
    LET start == Min(lo, s.len)
        stop == Min(hi, s.len)
    IN  MkStr(s.off + start, Max(stop - start, 0))

PIPE_CAP == 10 * 1024

\* A variant that hands the whole output on.
Truncate_Whole(s) == s

\* history[-1].std_out[0:10*1024] (run, line 217).
Truncate(s) == Slice(s, 0, PIPE_CAP)

(***************************************************************************)
(* The inputs the model draws from.                                        *)
(***************************************************************************)
Platforms == {"posix", "win32"}
\* An executable that can be started, and one that cannot.
Execs == {"good", "missing"}
Commands == UNION {[1 .. n -> Execs] : n \in 0 .. MaxStages}
\* timeout and kill_timeout: None, or a number of seconds.  The model has no
\* clock: a wait with a timeout may run out at any moment, whatever the number.
TimeoutVals == {None, IntV(1)}
Datas == {None, MkStr(0, PIPE_CAP + 2)}
\* What a child may write to its standard output and standard error.
StdOuts == {MkStr(2, PIPE_CAP), MkStr(1, PIPE_CAP + 1)}
StdErrs == {EmptyStr}
\* The statuses a child may exit with of its own accord.
ExitCodes == {0, 127}
SIGTERM == 15
SIGKILL == 9
\* TerminateProcess(handle, -1): the exit code given at line 29, kept as the
\* 32-bit pattern the call is passed.
WinExitCode == -1
SpawnSentinel == 127

\* The entry points: run() and connect().
Apis == {"run", "connect"}

\* Environments.  A dictionary of environment variables gives every name of
\* EnvKeys its value, or Unset when the name is not a key of it.
EnvKeys == {"PATH", "HOME", "LANG"}
Unset == "<unset>"
EmptyDict == [k \in EnvKeys |-> Unset]
\* os.environ when the call is made.
AmbientEnv == [k \in EnvKeys |-> CASE k = "PATH" -> "/bin" [] k = "HOME" -> "/root"
                                   [] OTHER -> Unset]
\* An env argument that overrides one inherited name and adds a new one.
Overlay == [k \in EnvKeys |-> CASE k = "PATH" -> "/opt/bin" [] k = "LANG" -> "C"
                                [] OTHER -> Unset]
Envs == {None, Overlay}

\* A variant that takes the dictionary itself instead of a copy of it.
DictCopy_Alias(d) == [same |-> TRUE, items |-> d]

\* dict(d): a new dictionary with the items of d, not the object d itself.
DictCopy(d) == [same |-> FALSE, items |-> d]

\* d.update(other): the items of other replace or extend those of d.
Updated(d, other) == [k \in EnvKeys |-> IF other[k] # Unset THEN other[k] ELSE d[k]]

\* env or {}: None and the empty dictionary are both false.
OrEmpty(e) == IF e = None \/ e = EmptyDict THEN EmptyDict ELSE e

\* environ = dict(os.environ); environ.update(env or {}) (lines 65-66 and
\* 247-248): the dictionary handed to Popen, and what the statements leave in
\* os.environ and in the caller's env.  update() changes the object environ
\* refers to, whichever that is.
BuildEnviron(ambient, e) ==
    LET copy == DictCopy(ambient)
        merged == Updated(copy.items, OrEmpty(e))
    IN  [environ |-> merged,
         os_environ |-> IF copy.same THEN merged ELSE ambient,
         env |-> e]

\* Exceptions: the type decides what run()'s "except OSError" catches.
Exc(t, w) == [kind |-> "exc", type |-> t, where |-> w]
\* e.strerror joined with the traceback: never empty.
ErrText == MkStr(0, 7)
\* The Popen object that self.process refers to once the spawn has succeeded.
PopenHandle == [kind |-> "Popen"]

VARIABLES
    \* the entry point called, the call's arguments (command, data, timeout,
    \* kill_timeout) and the platform
    api, platform, command, timeout, kill_timeout, data0,
    \* the caller's env, os.environ, and the environ of the execution at hand
    env, osEnviron, environ,
    \* connect() and the ConnectedCommand it returns: where its user stands,
    \* the exception raised or in flight, the stages a process was spawned
    \* for, _status_code, and the kill() and block() calls made so far
    connPc, connExc, spawned, sStatusCode, userKilled, exitKills, blockDone,
    \* run(): its locals, position and outcome
    data, history, idx, runPc, result, runExc,
    \* the Command object of the current stage
    cProcess, cOut, cErr, cReturncode, cData, cExc,
    \* the Popen object's returncode and the operating system's child
    popenRc, child, childStatus, pending, stubborn, faulty,
    \* the worker thread and the calling thread inside Command.run
    wPc, sPc, cmdExc,
    \* what has happened in the current stage, and a log of finished stages
    termCount, killCount, softFired, exitedAtSoft, killFired, exitedAtKill,
    signalled, stageLog,
    \* the waits and signals of the current stage in the order they happened,
    \* and the child's state at a liveness check that found the thread alive
    sigLog, checkedChild

callVars == <<api, platform, command, timeout, kill_timeout, data0>>
envVars == <<env, osEnviron, environ>>
connVars == <<connPc, connExc, spawned, sStatusCode, userKilled, exitKills, blockDone>>
runVars == <<data, history, idx, runPc, result, runExc>>
cmdVars == <<cProcess, cOut, cErr, cReturncode, cData, cExc>>
osVars == <<popenRc, child, childStatus, pending, stubborn, faulty>>
thrVars == <<wPc, sPc, cmdExc>>
obsVars == <<termCount, killCount, softFired, exitedAtSoft, killFired, exitedAtKill,
             signalled, stageLog, sigLog, checkedChild>>
vars == <<callVars, envVars, connVars, runVars, cmdVars, osVars, thrVars, obsVars>>

Exited == {"zombie", "reaped"}
\* _is_alive(thread): started and not yet finished.
IsAlive == wPc \in {"spawn", "communicate", "store"}

(***************************************************************************)
(* Signals (lines 24-41).  An outcome is the exception the call raises, or *)
(* None, and the signal that reaches the child.                            *)
(***************************************************************************)
Outcome(e, s) == [exc |-> e, sig |-> s]

\* os.kill(process.pid, sig).  A running child gets the signal; an exited child
\* that was not waited for still owns its pid and the signal is dropped; once
\* the child was waited for the pid is free: the call raises ESRCH, an OSError,
\* or signals whatever process the system gave the pid to.
OsKill(childState, sig) ==
    CASE childState = "running" -> {Outcome(None, sig)}
      [] childState = "zombie"  -> {Outcome(None, "none")}
      [] OTHER -> {Outcome(Exc("OSError", "signal"), "none"), Outcome(None, "none")}

\* _terminate_process(process): process.pid of None is an AttributeError on
\* either platform; TerminateProcess ends a running process at once and
\* fails silently (a return value nobody reads) on one that has exited.
TerminateProcess(process, plat, childState) ==
    IF process = None THEN {Outcome(Exc("AttributeError", "signal"), "none")}
    ELSE IF plat = "win32"
         THEN {Outcome(None, IF childState = "running" THEN "FORCE" ELSE "none")}
         ELSE OsKill(childState, "TERM")

\* A variant that sends the graceful request a second time.
KillProcess_Graceful(process, plat, childState) ==
    TerminateProcess(process, plat, childState)

\* _kill_process(process).
KillProcess(process, plat, childState) ==
    IF plat = "win32" THEN TerminateProcess(process, plat, childState)
    ELSE IF process = None THEN {Outcome(Exc("AttributeError", "signal"), "none")}
    ELSE OsKill(childState, "KILL")

Deliver(sig) == IF sig = "none" THEN pending ELSE pending \cup {sig}

\* The exit code Popen.kill() gives a process it ends on win32.
PopenTerminateCode == 1

\* process.kill() of the Popen object (line 143): SIGKILL by os.kill on
\* posix, TerminateProcess on win32, where the call on a process that has
\* exited fails, an error the library passes on or drops.
PopenKill(plat, childState) ==
    IF plat = "win32"
    THEN IF childState = "running" THEN {Outcome(None, "WINKILL")}
         ELSE {Outcome(None, "none"), Outcome(Exc("OSError", "signal"), "none")}
    ELSE OsKill(childState, "KILL")

(***************************************************************************)
(* Response objects (lines 160-171, 227-232).  process_data is             *)
(* r._process.data, the input the stage's Command was run with.            *)
(***************************************************************************)
Response(c, out, err, status, input) ==
    [command |-> c, std_out |-> out, std_err |-> err, status_code |-> status,
     history |-> <<>>, process_data |-> input]

\* A variant that leaves the returned result in its own history.
PopResult_Kept(h) == [h[Len(h)] EXCEPT !.history = h]

\* r = history.pop(); r.history = history; return r (lines 236-239).
PopResult(h) == [h[Len(h)] EXCEPT !.history = SubSeq(h, 1, Len(h) - 1)]


(***************************************************************************)
(* Init: run() has been called and is about to enter its loop, or          *)
(* connect() has been called.  connect() takes no timeouts.                *)
(***************************************************************************)
Init ==
    /\ api \in Apis
    /\ platform \in Platforms
    /\ command \in Commands
    /\ data0 \in Datas
    /\ env \in Envs
    /\ \/ /\ api = "run"
          /\ timeout \in TimeoutVals
          /\ kill_timeout \in TimeoutVals
          /\ runPc = "loop" /\ connPc = "idle"
       \/ /\ api = "connect"
          /\ timeout = None
          /\ kill_timeout = None
          /\ runPc = "idle" /\ connPc = "connect"
    /\ osEnviron = AmbientEnv /\ environ = None
    /\ connExc = None /\ spawned = <<>> /\ sStatusCode = None
    /\ userKilled = FALSE /\ exitKills = 0 /\ blockDone = FALSE
    /\ data = data0
    /\ history = <<>>
    /\ idx = 0
    /\ result = None
    /\ runExc = None
    /\ cProcess = None /\ cOut = None /\ cErr = None
    /\ cReturncode = None /\ cData = None /\ cExc = None
    /\ popenRc = None /\ child = "none" /\ childStatus = 0
    /\ pending = {} /\ stubborn = FALSE /\ faulty = FALSE
    /\ wPc = "idle" /\ sPc = "idle" /\ cmdExc = None
    /\ termCount = 0 /\ killCount = 0
    /\ softFired = FALSE /\ exitedAtSoft = FALSE
    /\ killFired = FALSE /\ exitedAtKill = FALSE
    /\ signalled = FALSE
    /\ stageLog = <<>>
    /\ sigLog = <<>> /\ checkedChild = "none"

\* cmd = Command(c) (lines 54-61, 219): a fresh object, with no thread and no
\* child yet; pc is where the calling thread stands with respect to it.
NewCommand(input, pc) ==
    /\ cProcess' = None /\ cOut' = None /\ cErr' = None
    /\ cReturncode' = None /\ cData' = input /\ cExc' = None
    /\ popenRc' = None /\ child' = "none" /\ childStatus' = 0
    /\ pending' = {} /\ stubborn' = FALSE /\ faulty' = FALSE
    /\ wPc' = "idle" /\ sPc' = pc /\ cmdExc' = None
    /\ termCount' = 0 /\ killCount' = 0
    /\ softFired' = FALSE /\ exitedAtSoft' = FALSE
    /\ killFired' = FALSE /\ exitedAtKill' = FALSE
    /\ signalled' = FALSE
    /\ sigLog' = <<>> /\ checkedChild' = "none"

(***************************************************************************)
(* run(): the pipeline loop (lines 204-239).                               *)
(***************************************************************************)
\* for c in command: the hand-off, Command(c) and the call of cmd.run
\* (lines 213-221, 63-66).  A previous std_out of None cannot be sliced.
R_Next ==
    /\ runPc = "loop"
    /\ idx < Len(command)
    /\ IF Len(history) > 0 /\ history[Len(history)].std_out = None
       THEN /\ runPc' = "raised"
            /\ runExc' = Exc("TypeError", "run")
            /\ UNCHANGED <<data, history, idx, result>>
            /\ UNCHANGED <<envVars, cmdVars, osVars, thrVars, obsVars>>
       ELSE /\ data' = IF Len(history) > 0
                       THEN Truncate(history[Len(history)].std_out)
                       ELSE data
            /\ NewCommand(data', "start")
            /\ LET built == BuildEnviron(osEnviron, env)
               IN  /\ environ' = built.environ
                   /\ osEnviron' = built.os_environ
                   /\ env' = built.env
            /\ runPc' = "in_cmd"
            /\ UNCHANGED <<history, idx, result, runExc, stageLog>>
    /\ UNCHANGED <<callVars, connVars>>

\* The StageResult run() makes of the way cmd.run ended: its return value and
\* cmd.returncode (lines 221-222), or the synthesized result of an OSError
\* (lines 223-225); then lines 227-232.
StageResult ==
    IF sPc = "returned"
    THEN Response(command[idx + 1], cOut, cErr, cReturncode, cData)
    ELSE Response(command[idx + 1], EmptyStr, ErrText, IntV(SpawnSentinel), cData)

\* history.append(r) and the end of the iteration (line 234): cmd goes out of
\* scope, and with it the model's view of its thread and child.
EndStage ==
    /\ history' = Append(history, StageResult)
    /\ stageLog' = Append(stageLog, StageResult)
    /\ idx' = idx + 1
    /\ runPc' = "loop"
    /\ NewCommand(None, "idle")
    /\ environ' = None
    /\ UNCHANGED <<data, result, runExc, callVars, env, osEnviron, connVars>>

\* cmd.run returned (lines 221-222, 227-234).
R_StageDone ==
    /\ runPc = "in_cmd"
    /\ sPc = "returned"
    /\ EndStage

\* cmd.run raised an OSError (lines 223-234).
R_StageOSError ==
    /\ runPc = "in_cmd"
    /\ sPc = "raised"
    /\ cmdExc.type = "OSError"
    /\ EndStage

\* cmd.run raised anything else: run() has no handler for it.
R_StageRaise ==
    /\ runPc = "in_cmd"
    /\ sPc = "raised"
    /\ cmdExc.type # "OSError"
    /\ runPc' = "raised"
    /\ runExc' = cmdExc
    /\ UNCHANGED <<data, history, idx, result>>
    /\ UNCHANGED <<callVars, cmdVars, osVars, thrVars, obsVars>>
    /\ UNCHANGED <<envVars, connVars>>

\* After the loop: history.pop() and the return (lines 236-239); pop from an
\* empty list is an IndexError.
R_Finish ==
    /\ runPc = "loop"
    /\ idx = Len(command)
    /\ IF Len(history) = 0
       THEN /\ runPc' = "raised"
            /\ runExc' = Exc("IndexError", "run")
            /\ UNCHANGED <<history, result>>
       ELSE /\ result' = PopResult(history)
            /\ history' = SubSeq(history, 1, Len(history) - 1)
            /\ runPc' = "returned"
            /\ UNCHANGED runExc
    /\ UNCHANGED <<data, idx>>
    /\ UNCHANGED <<callVars, cmdVars, osVars, thrVars, obsVars>>
    /\ UNCHANGED <<envVars, connVars>>

(***************************************************************************)
(* Command.run, the calling thread (lines 93-107).                         *)
(***************************************************************************)
InCmd == runPc = "in_cmd"

\* thread.join(t) may return: the thread has finished, or t is a number of
\* seconds, which may have run out.
JoinReturns(t) == ~IsAlive \/ t # None

\* thread = threading.Thread(target=target); thread.start() (lines 93-94).
S_Start ==
    /\ InCmd /\ sPc = "start"
    /\ wPc' = "spawn"
    /\ sPc' = "join1"
    /\ UNCHANGED <<cmdExc, callVars, runVars, cmdVars, osVars, obsVars>>
    /\ UNCHANGED <<envVars, connVars>>

\* thread.join(timeout) returns (line 96).
S_Join1 ==
    /\ InCmd /\ sPc = "join1"
    /\ JoinReturns(timeout)
    /\ sPc' = "check_exc"
    /\ softFired' = IsAlive
    /\ exitedAtSoft' = (IsAlive /\ child \in Exited)
    /\ UNCHANGED <<wPc, cmdExc, callVars, runVars, cmdVars, osVars>>
    /\ sigLog' = Append(sigLog, "join1")
    /\ UNCHANGED <<termCount, killCount, killFired, exitedAtKill, signalled, stageLog>>
    /\ UNCHANGED checkedChild
    /\ UNCHANGED <<envVars, connVars>>

\* if self.exc: raise self.exc (lines 97-98).
S_CheckExc ==
    /\ InCmd /\ sPc = "check_exc"
    /\ IF cExc # None
       THEN sPc' = "raised" /\ cmdExc' = cExc
       ELSE sPc' = "alive1" /\ UNCHANGED cmdExc
    /\ UNCHANGED <<wPc, callVars, runVars, cmdVars, osVars, obsVars>>
    /\ UNCHANGED <<envVars, connVars>>

\* A variant that goes straight to the forced kill.
Alive1Target_KillFirst(alive) == IF alive THEN "kill" ELSE "read_rc"

\* A variant that sends the termination request whether or not the thread is
\* still alive.
Alive1Target_Unconditional(alive) == "terminate"

\* if _is_alive(thread) (line 100).
Alive1Target(alive) == IF alive THEN "terminate" ELSE "read_rc"

S_Alive1 ==
    /\ InCmd /\ sPc = "alive1"
    /\ sPc' = Alive1Target(IsAlive)
    /\ checkedChild' = (IF IsAlive THEN child ELSE "none")
    /\ UNCHANGED <<wPc, cmdExc, callVars, runVars, cmdVars, osVars>>
    /\ UNCHANGED <<termCount, killCount, softFired, exitedAtSoft, killFired,
                   exitedAtKill, signalled, stageLog, sigLog>>
    /\ UNCHANGED <<envVars, connVars>>

\* _terminate_process(self.process) (line 101).
S_Terminate ==
    /\ InCmd /\ sPc = "terminate"
    /\ \E o \in TerminateProcess(cProcess, platform, child) :
          /\ pending' = Deliver(o.sig)
          /\ IF o.exc # None
             THEN sPc' = "raised" /\ cmdExc' = o.exc
             ELSE sPc' = "join2" /\ UNCHANGED cmdExc
    /\ termCount' = termCount + 1
    /\ signalled' = (cProcess # None)
    /\ UNCHANGED <<wPc, callVars, runVars, cmdVars>>
    /\ UNCHANGED <<popenRc, child, childStatus, stubborn, faulty>>
    /\ sigLog' = Append(sigLog, "terminate")
    /\ checkedChild' = "none"
    /\ UNCHANGED <<killCount, softFired, exitedAtSoft, killFired, exitedAtKill,
                   stageLog>>
    /\ UNCHANGED <<envVars, connVars>>

\* thread.join(kill_timeout) returns (line 102).
S_Join2 ==
    /\ InCmd /\ sPc = "join2"
    /\ JoinReturns(kill_timeout)
    /\ sPc' = "alive2"
    /\ killFired' = IsAlive
    /\ exitedAtKill' = (IsAlive /\ child \in Exited)
    /\ UNCHANGED <<wPc, cmdExc, callVars, runVars, cmdVars, osVars>>
    /\ sigLog' = Append(sigLog, "join2")
    /\ UNCHANGED <<termCount, killCount, softFired, exitedAtSoft, signalled, stageLog>>
    /\ UNCHANGED checkedChild
    /\ UNCHANGED <<envVars, connVars>>

\* A variant that kills whether or not the thread is still alive.
Alive2Target_Unconditional(alive) == "kill"

\* if _is_alive(thread) (line 103).
Alive2Target(alive) == IF alive THEN "kill" ELSE "read_rc"

S_Alive2 ==
    /\ InCmd /\ sPc = "alive2"
    /\ sPc' = Alive2Target(IsAlive)
    /\ checkedChild' = (IF IsAlive THEN child ELSE "none")
    /\ UNCHANGED <<wPc, cmdExc, callVars, runVars, cmdVars, osVars>>
    /\ UNCHANGED <<termCount, killCount, softFired, exitedAtSoft, killFired,
                   exitedAtKill, signalled, stageLog, sigLog>>
    /\ UNCHANGED <<envVars, connVars>>

\* _kill_process(self.process) (line 104).
S_Kill ==
    /\ InCmd /\ sPc = "kill"
    /\ \E o \in KillProcess(cProcess, platform, child) :
          /\ pending' = Deliver(o.sig)
          /\ IF o.exc # None
             THEN sPc' = "raised" /\ cmdExc' = o.exc
             ELSE sPc' = "join3" /\ UNCHANGED cmdExc
    /\ killCount' = killCount + 1
    /\ UNCHANGED <<wPc, callVars, runVars, cmdVars>>
    /\ UNCHANGED <<popenRc, child, childStatus, stubborn, faulty>>
    /\ sigLog' = Append(sigLog, "kill")
    /\ checkedChild' = "none"
    /\ UNCHANGED <<termCount, softFired, exitedAtSoft, killFired, exitedAtKill,
                   signalled, stageLog>>
    /\ UNCHANGED <<envVars, connVars>>

\* thread.join() returns (line 105).
S_Join3 ==
    /\ InCmd /\ sPc = "join3"
    /\ JoinReturns(None)
    /\ sPc' = "read_rc"
    /\ UNCHANGED <<wPc, cmdExc, callVars, runVars, cmdVars, osVars, obsVars>>
    /\ UNCHANGED <<envVars, connVars>>

\* self.returncode = self.process.returncode; return self.out, self.err
\* (lines 106-107).  self.process is None when the spawn did not happen.
S_ReadRc ==
    /\ InCmd /\ sPc = "read_rc"
    /\ IF cProcess = None
       THEN /\ sPc' = "raised"
            /\ cmdExc' = Exc("AttributeError", "returncode")
            /\ UNCHANGED cReturncode
       ELSE /\ cReturncode' = popenRc
            /\ sPc' = "returned"
            /\ UNCHANGED cmdExc
    /\ UNCHANGED <<wPc, callVars, runVars, osVars, obsVars>>
    /\ UNCHANGED <<cProcess, cOut, cErr, cData, cExc>>
    /\ UNCHANGED <<envVars, connVars>>

(***************************************************************************)
(* target(), the worker thread (lines 68-90).                              *)
(***************************************************************************)
\* subprocess.Popen(...) and the assignment to self.process (lines 71-80); a
\* failure to start the executable is an OSError, kept in self.exc (89-90).
\* The child's temper is fixed here: a stubborn child ignores SIGTERM and
\* never exits of its own accord; a faulty pipe makes communicate raise.
W_Spawn ==
    /\ wPc = "spawn"
    /\ IF command[idx + 1] = "missing"
       THEN /\ cExc' = Exc("OSError", "spawn")
            /\ wPc' = "done"
            /\ UNCHANGED <<cProcess, osVars>>
       ELSE /\ cProcess' = PopenHandle
            /\ child' = "running"
            /\ stubborn' \in BOOLEAN
            /\ faulty' \in BOOLEAN
            /\ wPc' = "communicate"
            /\ UNCHANGED <<cExc, popenRc, childStatus, pending>>
    /\ UNCHANGED <<sPc, cmdExc, callVars, runVars>>
    /\ UNCHANGED <<cOut, cErr, cReturncode, cData>>
    /\ UNCHANGED obsVars
    /\ UNCHANGED <<envVars, connVars>>

\* communicate() sees the child's streams close and waits for it: the child
\* is reaped and process.returncode is set (inside line 84 / 88).
W_Reap ==
    /\ wPc = "communicate"
    /\ child = "zombie"
    /\ child' = "reaped"
    /\ popenRc' = IntV(childStatus)
    /\ wPc' = "store"
    /\ UNCHANGED <<sPc, cmdExc, callVars, runVars, cmdVars, obsVars>>
    /\ UNCHANGED <<childStatus, pending, stubborn, faulty>>
    /\ UNCHANGED <<envVars, connVars>>

\* communicate() returns; self.out, self.err are assigned and the thread
\* ends (lines 84-88).
W_Store ==
    /\ wPc = "store"
    /\ cOut' \in StdOuts
    /\ cErr' \in StdErrs
    /\ wPc' = "done"
    /\ UNCHANGED <<sPc, cmdExc, callVars, runVars, osVars, obsVars>>
    /\ UNCHANGED <<cProcess, cReturncode, cData, cExc>>
    /\ UNCHANGED <<envVars, connVars>>

\* communicate() raises, before or after it has waited for the child; the
\* exception is kept in self.exc and the thread ends (lines 89-90).
W_Fail ==
    /\ wPc \in {"communicate", "store"}
    /\ faulty
    /\ \E t \in {"OSError", "ValueError"} : cExc' = Exc(t, "communicate")
    /\ wPc' = "done"
    /\ UNCHANGED <<sPc, cmdExc, callVars, runVars, osVars, obsVars>>
    /\ UNCHANGED <<cProcess, cOut, cErr, cReturncode, cData>>
    /\ UNCHANGED <<envVars, connVars>>

(***************************************************************************)
(* The child process.                                                      *)
(***************************************************************************)
\* The child exits of its own accord with a status of its choice.
ChildExit ==
    /\ child = "running"
    /\ ~stubborn
    /\ childStatus' \in ExitCodes
    /\ child' = "zombie"
    /\ UNCHANGED <<popenRc, pending, stubborn, faulty>>
    /\ UNCHANGED <<callVars, runVars, cmdVars, thrVars, obsVars>>
    /\ UNCHANGED <<envVars, connVars>>

\* SIGTERM ends a child that does not ignore it.
ChildTerminated ==
    /\ child = "running"
    /\ ~stubborn
    /\ "TERM" \in pending
    /\ childStatus' = -SIGTERM
    /\ child' = "zombie"
    /\ UNCHANGED <<popenRc, pending, stubborn, faulty>>
    /\ UNCHANGED <<callVars, runVars, cmdVars, thrVars, obsVars>>
    /\ UNCHANGED <<envVars, connVars>>

\* SIGKILL and TerminateProcess end every child.
ChildKilled ==
    /\ child = "running"
    /\ pending \cap {"KILL", "FORCE", "WINKILL"} # {}
    /\ childStatus' = IF "KILL" \in pending THEN -SIGKILL
                      ELSE IF "FORCE" \in pending THEN WinExitCode
                      ELSE PopenTerminateCode
    /\ child' = "zombie"
    /\ UNCHANGED <<popenRc, pending, stubborn, faulty>>
    /\ UNCHANGED <<callVars, runVars, cmdVars, thrVars, obsVars>>
    /\ UNCHANGED <<envVars, connVars>>

(***************************************************************************)
(* connect() (lines 242-261) and the ConnectedCommand it returns (lines    *)
(* 110-156), used by its caller as "with connect(...) as c: ...".          *)
(***************************************************************************)
\* A variant that takes the first stage.
PopStage_First(cmds) == 1

\* expand_args(command).pop() (line 246): the last stage.
PopStage(cmds) == Len(cmds)

\* connect(): pop() of an empty list is an IndexError; a failure to start the
\* executable is an OSError that connect() does not handle.  data is not
\* used.  The session starts with _status_code = None (line 121).
C_Connect ==
    /\ api = "connect" /\ connPc = "connect"
    /\ IF Len(command) = 0
       THEN /\ connPc' = "raised"
            /\ connExc' = Exc("IndexError", "connect")
            /\ UNCHANGED <<envVars, spawned, osVars>>
       ELSE /\ LET built == BuildEnviron(osEnviron, env)
               IN  /\ environ' = built.environ
                   /\ osEnviron' = built.os_environ
                   /\ env' = built.env
            /\ IF command[PopStage(command)] = "missing"
               THEN /\ connPc' = "raised"
                    /\ connExc' = Exc("OSError", "spawn")
                    /\ UNCHANGED <<spawned, osVars>>
               ELSE /\ spawned' = Append(spawned, PopStage(command))
                    /\ child' = "running"
                    /\ stubborn' \in BOOLEAN
                    /\ connPc' = "ready"
                    /\ UNCHANGED <<connExc, popenRc, childStatus, pending, faulty>>
    /\ UNCHANGED <<sStatusCode, userKilled, exitKills, blockDone>>
    /\ UNCHANGED <<callVars, runVars, cmdVars, thrVars, obsVars>>

\* with c: __enter__ returns self (lines 123-124).
U_Enter ==
    /\ connPc = "ready"
    /\ connPc' = "inblock"
    /\ UNCHANGED <<connExc, spawned, sStatusCode, userKilled, exitKills, blockDone>>
    /\ UNCHANGED <<callVars, envVars, runVars, cmdVars, osVars, thrVars, obsVars>>

\* c.send(str) (lines 150-152): a write to the child's stdin, which fails
\* once the child has exited; the block does not catch the error.
U_Send ==
    /\ connPc = "inblock"
    /\ IF child = "running"
       THEN UNCHANGED <<connPc, connExc>>
       ELSE connPc' = "exiting" /\ connExc' = Exc("IOError", "send")
    /\ UNCHANGED <<spawned, sStatusCode, userKilled, exitKills, blockDone>>
    /\ UNCHANGED <<callVars, envVars, runVars, cmdVars, osVars, thrVars, obsVars>>

\* c.expect(bytes) (lines 145-148): picks a stream and does nothing with it.
U_Expect ==
    /\ connPc = "inblock"
    /\ UNCHANGED vars

\* c.block() (lines 154-156): process.wait() returns once the child has
\* exited, and its status is kept in _status_code.
U_Block ==
    /\ connPc = "inblock"
    /\ child \in Exited
    /\ child' = "reaped"
    /\ popenRc' = IntV(childStatus)
    /\ sStatusCode' = popenRc'
    /\ blockDone' = TRUE
    /\ UNCHANGED <<connPc, connExc, spawned, userKilled, exitKills>>
    /\ UNCHANGED <<childStatus, pending, stubborn, faulty>>
    /\ UNCHANGED <<callVars, envVars, runVars, cmdVars, thrVars, obsVars>>

\* c.kill() called in the block (lines 141-143).
U_Kill ==
    /\ connPc = "inblock"
    /\ \E o \in PopenKill(platform, child) :
          /\ pending' = Deliver(o.sig)
          /\ IF o.exc # None
             THEN connPc' = "exiting" /\ connExc' = o.exc
             ELSE UNCHANGED <<connPc, connExc>>
    /\ userKilled' = TRUE
    /\ UNCHANGED <<spawned, sStatusCode, exitKills, blockDone>>
    /\ UNCHANGED <<popenRc, child, childStatus, stubborn, faulty>>
    /\ UNCHANGED <<callVars, envVars, runVars, cmdVars, thrVars, obsVars>>

\* The code in the block raises.
U_Raise ==
    /\ connPc = "inblock"
    /\ connPc' = "exiting"
    /\ connExc' = Exc("ValueError", "block")
    /\ UNCHANGED <<spawned, sStatusCode, userKilled, exitKills, blockDone>>
    /\ UNCHANGED <<callVars, envVars, runVars, cmdVars, osVars, thrVars, obsVars>>

\* The code in the block runs to its end.
U_Leave ==
    /\ connPc = "inblock"
    /\ connPc' = "exiting"
    /\ UNCHANGED <<connExc, spawned, sStatusCode, userKilled, exitKills, blockDone>>
    /\ UNCHANGED <<callVars, envVars, runVars, cmdVars, osVars, thrVars, obsVars>>

\* A variant that kills only when the block ended without an exception.
ExitAction_OnlyOnSuccess(type) == IF type = None THEN "kill" ELSE "pass"

\* __exit__(type, value, traceback) (lines 126-127): self.kill(), whatever
\* type is.
ExitAction(type) == "kill"

\* The with statement calls __exit__ with the exception in flight, if any;
\* __exit__ returns None, so that exception goes on, unless kill() raises
\* one of its own.
X_Exit ==
    /\ connPc = "exiting"
    /\ connPc' = "left"
    /\ IF ExitAction(connExc) = "kill"
       THEN /\ \E o \in PopenKill(platform, child) :
                  /\ pending' = Deliver(o.sig)
                  /\ connExc' = IF o.exc # None THEN o.exc ELSE connExc
            /\ exitKills' = exitKills + 1
       ELSE UNCHANGED <<pending, connExc, exitKills>>
    /\ UNCHANGED <<spawned, sStatusCode, userKilled, blockDone>>
    /\ UNCHANGED <<popenRc, child, childStatus, stubborn, faulty>>
    /\ UNCHANGED <<callVars, envVars, runVars, cmdVars, thrVars, obsVars>>

RunStep == R_Next \/ R_StageDone \/ R_StageOSError \/ R_StageRaise \/ R_Finish
CallerStep ==
    \/ S_Start \/ S_Join1 \/ S_CheckExc \/ S_Alive1 \/ S_Terminate
    \/ S_Join2 \/ S_Alive2 \/ S_Kill \/ S_Join3 \/ S_ReadRc
WorkerStep == W_Spawn \/ W_Reap \/ W_Store \/ W_Fail
ChildStep == ChildExit \/ ChildTerminated \/ ChildKilled
SessionStep ==
    \/ C_Connect \/ U_Enter \/ U_Send \/ U_Expect \/ U_Block \/ U_Kill
    \/ U_Raise \/ U_Leave \/ X_Exit

Next == RunStep \/ CallerStep \/ WorkerStep \/ ChildStep \/ SessionStep

Spec == Init /\ [][Next]_vars

(***************************************************************************)
(* Fairness.  The calling thread (run() and Command.run) and the worker    *)
(* thread are scheduled; a child that was sent SIGKILL (or                 *)
(* TerminateProcess) dies.  Nothing obliges a child to exit of its own     *)
(* accord or on SIGTERM, nor a pipe to fail.                               *)
(***************************************************************************)
\* The data handed to the first stage and the environment have no bearing on
\* what is scheduled: the fair behaviours are those of the calls with the
\* defaults data = None and env = None.
FairInit == Init /\ data0 = None /\ env = None

FairSpec ==
    /\ FairInit /\ [][Next]_vars
    /\ WF_vars(RunStep \/ CallerStep)
    /\ WF_vars(W_Spawn \/ W_Reap \/ W_Store)
    /\ WF_vars(ChildKilled)

(***************************************************************************)
(* Properties of one execution of Command.run.                             *)
(***************************************************************************)
\* Where the calling thread stands once thread.join(timeout) has returned,
\* and once thread.join(kill_timeout) has.
PastJoin1 ==
    sPc \in {"check_exc", "alive1", "terminate", "join2", "alive2", "kill", "join3",
             "read_rc", "returned", "raised"}
PastJoin2 ==
    /\ termCount > 0
    /\ pending # {}
    /\ sPc \in {"alive2", "kill", "join3", "read_rc", "returned", "raised"}
NoSignal == termCount = 0 /\ killCount = 0

IgnoresTerminate ==
    /\ InCmd /\ sPc = "join2"
    /\ timeout # None
    /\ "TERM" \in pending /\ child = "running"
    /\ stubborn /\ ~faulty
KilledAndReturned == InCmd /\ sPc = "returned" /\ killCount > 0

SpawnFails == idx < Len(command) /\ command[idx + 1] = "missing"
\* cmd.run has ended, one way or the other.
CmdEnded == InCmd /\ sPc \in {"returned", "raised"}
\* run() has raised out of a stage (not at the hand-off between two stages).
RaisedInStage == runPc = "raised" /\ runExc.where # "run"
IsSentinelResult(r) ==
    /\ r.status_code = IntV(127)
    /\ r.std_out = EmptyStr
    /\ r.std_err # None /\ r.std_err.len > 0

\* C4, as stated: a stage whose executable cannot be started ends as a
\* StageResult with status 127, empty std_out and non-empty std_err, and
\* run() does not raise, whatever the timeouts and the interleaving.
C4_SpawnFailureReported ==
    /\ (CmdEnded /\ SpawnFails) =>
          (sPc = "raised" /\ cmdExc.type = "OSError" /\ IsSentinelResult(StageResult))
    /\ RaisedInStage => ~SpawnFails
    /\ \A i \in 1 .. Len(stageLog) :
          command[i] = "missing" => IsSentinelResult(stageLog[i])

\* C5, as stated, and allowing for a child that itself exits with 127: a
\* stage whose process was spawned is not reported with the sentinel 127.
C5_SentinelOnlyForSpawnFailure ==
    (InCmd /\ cProcess # None
       /\ (sPc = "returned" \/ (sPc = "raised" /\ cmdExc.type = "OSError")))
    => (StageResult.status_code = IntV(SpawnSentinel)
          => (sPc = "returned" /\ child \in Exited /\ childStatus = SpawnSentinel))

\* C6, as stated: there is no execution in which the worker recorded an
\* exception and Command.run returned normally.
C6_WorkerExceptionNotSwallowed ==
    (InCmd /\ sPc = "returned") => cExc = None

\* What stage i (from 1) was given as input, and what stage i wrote.
InputOf(i) == stageLog[i].process_data
OutputOf(i) == stageLog[i].std_out
IsHandOff(inp, prev) ==
    /\ inp # None /\ prev # None
    /\ inp.len = Min(prev.len, 10 * 1024)
    /\ inp.len <= 10 * 1024
    /\ IsPrefix(inp, prev)
    /\ (prev.len <= 10 * 1024 => StrEq(inp, prev))

\* C7: the input of the first stage is the caller's data, unchanged; the
\* input of every later stage is the first min(len, 10*1024) characters of
\* the stage before's std_out: a prefix of it, no longer than 10*1024, and
\* all of it when it is no longer than that.
C7_HandOffIsCappedPrefix ==
    /\ (InCmd /\ idx = 0) => cData = data0
    /\ (InCmd /\ idx > 0) => IsHandOff(cData, OutputOf(idx))
    /\ Len(stageLog) >= 1 => InputOf(1) = data0
    /\ \A i \in 2 .. Len(stageLog) : IsHandOff(InputOf(i), OutputOf(i - 1))

\* C7, witness: a second stage has run on the first 10*1024 characters of a
\* longer output, after a first stage run on the caller's longer data.
C7_Witness ==
    /\ Len(stageLog) >= 2
    /\ data0 # None /\ data0.len > 10 * 1024 /\ InputOf(1) = data0
    /\ OutputOf(1).len > 10 * 1024
    /\ InputOf(2).len = 10 * 1024

C9_SpawnFailureDoesNotAbort ==
    /\ \A i \in 1 .. Len(stageLog) :
          command[i] = "missing" =>
              /\ stageLog[i].status_code = IntV(127)
              /\ (i < Len(stageLog) => InputOf(i + 1) = EmptyStr)
    /\ (InCmd /\ idx > 0 /\ command[idx] = "missing") => cData = EmptyStr
    /\ (runPc = "raised" /\ SpawnFails) => runExc.where = "run"

\* C10, as stated: when a timeout fired on a process that was spawned (the
\* termination request was sent to its handle) and communicate did not fail,
\* Command.run returns and the status it reports is the status the process
\* exited with, neither the sentinel nor None.
C10_TimeoutIsNotAFailure ==
    (CmdEnded /\ signalled /\ cExc = None)
    => (sPc = "returned" /\ child \in Exited /\ cReturncode = IntV(childStatus))

(***************************************************************************)
(* Properties of what run() and Command.run raise, read and signal.        *)
(***************************************************************************)
\* C11, as stated: whatever the command (one of no stage included) and the
\* timeouts, run() hands its caller a result; when it does raise, what it
\* raises is a fault of the communicate step.
C11_RunRaisesOnlyOnCommunicationFault ==
    runPc = "raised" => runExc.where = "communicate"

\* C16, as stated: when Command.run reads process.returncode of a process
\* that was spawned, the worker thread has finished, communicate has
\* completed without an exception, and the status read is that of a process
\* that was waited for, not None.
C16_ExitStatusReadAfterCommunicate ==
    (InCmd /\ sPc = "read_rc" /\ cProcess # None)
    => (~IsAlive /\ cExc = None /\ child = "reaped" /\ popenRc # None)

\* C18, as stated: whenever Command.run is about to invoke terminate() or
\* kill(), self.process has been set by the worker thread.
C18_SignalOnlyToExistingHandle ==
    (InCmd /\ sPc \in {"terminate", "kill"}) => cProcess # None

\* The waits and the signals of one execution, in the order of lines 96-104.
SignalOrder == <<"join1", "terminate", "join2", "kill">>
IsPrefixSeq(a, b) == Len(a) <= Len(b) /\ a = SubSeq(b, 1, Len(a))
Occurrences(log, e) == Cardinality({i \in 1 .. Len(log) : log[i] = e})

\* C14: within one execution of Command.run, the waits and the signals
\* happen in the order wait for the soft timeout, terminate(), wait for the
\* kill timeout, kill(), each at most once: terminate() only after the first
\* wait has returned, kill() only after terminate() and the second wait.
C14_SignalsOrderedAtMostOnce ==
    /\ IsPrefixSeq(sigLog, SignalOrder)
    /\ termCount = Occurrences(sigLog, "terminate")
    /\ killCount = Occurrences(sigLog, "kill")
    /\ termCount <= 1 /\ killCount <= 1 /\ killCount <= termCount

\* C14, witness: Command.run has returned after both waits timed out and
\* both signals were sent.
C14_Witness ==
    /\ InCmd /\ sPc = "returned"
    /\ sigLog = SignalOrder /\ termCount = 1 /\ killCount = 1

\* A signal is about to be sent to a child that communicate has waited for
\* since the liveness check that led to the signal.
SentLate == cProcess # None /\ checkedChild \in {"running", "zombie"} /\ child = "reaped"

\* C15, as stated: a signal sent to a child that has exited and was waited
\* for since the liveness check does not make Command.run raise (the call is
\* a no-op, or its error is ignored).
C15_LateSignalIsHarmless ==
    [][(InCmd /\ sPc \in {"terminate", "kill"} /\ SentLate) => sPc' # "raised"]_vars

\* C19, as stated: when Command.run has returned or raised, its worker
\* thread has finished and its child process, if any, has exited.
C19_NothingLeftRunning ==
    CmdEnded => (~IsAlive /\ child # "running")

\* C20, as stated: a stage is started only when the results of all stages
\* before it are in the history, and when a stage's result is appended and
\* the next stage is about to be run on its output, the stage's worker
\* thread has finished and its child has exited, so that no two stages'
\* threads or children are alive at a time.
C20_StagesStrictlySequential ==
    [][/\ (runPc = "loop" /\ runPc' = "in_cmd")
            => (Len(history) = idx /\ Len(stageLog) = idx)
       /\ (InCmd /\ idx' = idx + 1 /\ idx' < Len(command) /\ StageResult.std_out # None)
            => (~IsAlive /\ child # "running")]_vars

(***************************************************************************)
(* Properties of connect(), of the session it returns, and of the          *)
(* environment.                                                            *)
(***************************************************************************)
\* connect() has returned a session.
Connected == connPc \in {"ready", "inblock", "exiting", "left"}

\* C12: connect() spawns a process for no stage but the last of the expanded
\* command and for that one once: when it returns, exactly one process has
\* been spawned, that of the last stage (when it raises, none has); it
\* starts no worker thread and sends no signal, and when it returns the
\* process has been sent nothing: a signal only ever comes from a kill()
\* of the session.
C12_ConnectSpawnsLastStageOnly ==
    api = "connect" =>
        /\ Len(spawned) <= 1
        /\ \A i \in 1 .. Len(spawned) : spawned[i] = Len(command)
        /\ Connected => (spawned = <<Len(command)>> /\ child # "none")
        /\ ~Connected => (spawned = <<>> /\ child = "none")
        /\ wPc = "idle" /\ sPc = "idle" /\ sigLog = <<>>
        /\ termCount = 0 /\ killCount = 0
        /\ connPc = "ready" => pending = {}
        /\ pending # {} => (userKilled \/ exitKills > 0)

\* C12, witness: connect() has returned from a command of two stages whose
\* first stage could not have been started, with the process of the second
\* running and nothing sent to it.
C12_Witness ==
    /\ api = "connect" /\ connPc = "ready"
    /\ Len(command) = 2 /\ command[1] = "missing"
    /\ spawned = <<2>> /\ child = "running" /\ pending = {}

\* C13: a session used as "with" block has had kill() invoked by __exit__
\* exactly once when the block has been left, whether it ended normally or
\* by an exception, and not before; and status_code is None as long as
\* block() has not returned.
C13_KillOnEveryBlockExit ==
    /\ connPc = "left" => exitKills = 1
    /\ connPc # "left" => exitKills = 0
    /\ ~blockDone => sStatusCode = None

\* C13, witness: a block has been left by an exception raised in it, with
\* block() never called: kill() was invoked by __exit__, the signal was sent
\* and status_code is None.
C13_Witness ==
    /\ connPc = "left" /\ connExc # None /\ connExc.where = "block"
    /\ exitKills = 1 /\ ~userKilled /\ pending # {}
    /\ ~blockDone /\ sStatusCode = None

\* m has every key of e with e's value and every other key of ambient with
\* ambient's value.
IsOverlayOf(m, ambient, e) ==
    \A k \in EnvKeys :
        m[k] = IF e # None /\ e[k] # Unset THEN e[k] ELSE ambient[k]

\* C17: os.environ is at all times what it was when the call was made; no
\* step of run() or connect() changes it or the caller's env; and the
\* environ an execution hands to Popen has every key of env with env's value
\* and every other inherited key with the inherited value.
C17_EnvironmentNotMutated ==
    /\ [](osEnviron = AmbientEnv)
    /\ [][env' = env /\ osEnviron' = osEnviron]_vars
    /\ [](environ # None => IsOverlayOf(environ, AmbientEnv, env))

\* C17, witness: the second stage of a pipeline runs with an environ that
\* has env's PATH and LANG and the inherited HOME, and os.environ is as it
\* was.
C17_Witness ==
    /\ InCmd /\ idx >= 1 /\ env = Overlay /\ environ # None
    /\ environ["PATH"] = "/opt/bin" /\ environ["LANG"] = "C"
    /\ environ["HOME"] = "/root"
    /\ osEnviron = AmbientEnv /\ osEnviron["PATH"] = "/bin"

====
